---------------------------- MODULE Spec2Model ----------------------------
(***************************************************************************)
(* A model of the spacetime visualizer: the Convex object store            *)
(* (src/src/convex/objects.ts) and the React component that drives it      *)
(* (src/src/components/SpacetimeVisualizer.tsx).                           *)
(*                                                                         *)
(* Numbers.  A mass is a rational <<n, d>> with d > 0, because the         *)
(* registry's masses span 1e-6 .. 1e4.  Angles are in milliradians,        *)
(* lengths of the camera rig in units of 1e-4, times in milliseconds.      *)
(***************************************************************************)
EXTENDS Integers, Sequences, FiniteSets, TLC

(***************************************************************************)
(* Bounds of the model.                                                    *)
(***************************************************************************)
MaxObjects == 2
MaxWheel == 20
MaxWheelOrbit == 1
MaxPan == 1
GridDivisions == 1
MaxCalls == 2
MaxEdits == 2
MaxEditObjects == 1
MaxEditCalls == 3
MaxTime == 240
SingleBits == 8
MaxSessionObjects == 1
MaxSessionEdits == 1
MaxSessionCalls == 2
MaxGridObjects == 2
MaxSharedObjects == 2
MaxSharedEdits == 2
MaxSharedCalls == 4
MaxFrames == 3

(***************************************************************************)
(* Identities.  getCurrentUser(ctx) yields a user document or null.        *)
(***************************************************************************)
Users == {"u1", "u2"}
NoUser == "null"
Callers == Users \cup {NoUser}

Ids == 1..MaxObjects
NoObject == [id |-> 0]
NoName == <<>>

(***************************************************************************)
(* Rational arithmetic on masses.                                          *)
(***************************************************************************)
\* The number that is not one: what parseFloat yields for text that is no
\* number, and a value a v.number() argument may have.
NaN == <<0, 0>>
IsNaN(raw) == raw[2] = 0

\* a < b, comparing whole parts first so that the products stay small;
\* a comparison with NaN is false
RatLess(a, b) ==
  IF IsNaN(a) \/ IsNaN(b) THEN FALSE
  ELSE IF a[1] \div a[2] # b[1] \div b[2]
    THEN a[1] \div a[2] < b[1] \div b[2]
    ELSE (a[1] % a[2]) * b[2] < (b[1] % b[2]) * a[2]
\* a <= b
RatLeq(a, b) == ~IsNaN(a) /\ ~IsNaN(b) /\ ~RatLess(b, a)
\* Math.max and Math.min: NaN when an argument is NaN
RatMax(a, b) == IF IsNaN(a) \/ IsNaN(b) THEN NaN ELSE IF RatLess(a, b) THEN b ELSE a
RatMin(a, b) == IF IsNaN(a) \/ IsNaN(b) THEN NaN ELSE IF RatLess(b, a) THEN b ELSE a

Min(a, b) == IF a < b THEN a ELSE b
Max(a, b) == IF a > b THEN a ELSE b
Sign(x) == IF x > 0 THEN 1 ELSE IF x < 0 THEN -1 ELSE 0

(***************************************************************************)
(* The Object Type Registry.                                               *)
(***************************************************************************)
OBJECT_TYPES ==
  [ spaceship   |-> [mass |-> <<1, 1000000>>, color |-> 65416,    size |-> <<1, 10>>],
    planet      |-> [mass |-> <<1, 1>>,       color |-> 4491519,  size |-> <<3, 10>>],
    star        |-> [mass |-> <<100, 1>>,     color |-> 16755200, size |-> <<5, 10>>],
    neutronstar |-> [mass |-> <<1000, 1>>,    color |-> 16729156, size |-> <<2, 10>>],
    blackhole   |-> [mass |-> <<10000, 1>>,   color |-> 0,        size |-> <<4, 10>>] ]

TypeNames == DOMAIN OBJECT_TYPES

VARIABLES
  db,          \* the spaceObjects table: a set of documents
  nextId,      \* the id the next insert gets
  createdBy,   \* history: id -> the identity whose create call inserted it
  lastCall,    \* history: the last call the store ran, and its outcome
  clearRun     \* history: how many clearAll calls in a row the same caller made

storeVars == <<db, nextId, createdBy, lastCall, clearRun>>

VARIABLES
  spherical,              \* sphericalRef: [radius, phi, theta]
  target,                 \* targetRef: the orbit target
  cameraPosition,         \* cameraRef.current.position
  isDragging,             \* the closure variables of the mouse controls
  dragButton,
  previousMousePosition,
  wheelCount,             \* history: wheel events that turned the wheel so far
  lastEvent               \* history: the last input event handled

camVars == <<spherical, target, cameraPosition, isDragging, dragButton,
             previousMousePosition, wheelCount, lastEvent>>

VARIABLES
  session,                \* the identity the store sees behind the component's calls
  objects,                \* the list the getUserObjects subscription delivered last
  selectedObjectType,
  selectedObject,
  meshes,                 \* the keys of objectsRef
  targets,                \* targetYRef and targetColorsRef
  timers,                 \* the timeouts that are set and have not run
  massUpdateTimerRef,     \* the id of the timeout set last, 0 for null
  now,                    \* the clock, in milliseconds
  calls,                  \* the mutations issued whose handler has not resumed, in order
  issued,                 \* history: how many mutations the component issued
  toasts,                 \* the notification shown last, and the parity of their number
  lastClick,              \* history: the last canvas click and what its ray hit
  lastEdit,               \* history: the last accepted mass edit
  burstCount,             \* history: runs of edits less than 120 ms apart
  runCount,               \* history: runs of edits each made while a timer was set
  massCalls,              \* history: the updateMass calls issued, and the last one
  lastSettled,            \* history: the last call a handler saw answered, or dropped
  edited                  \* history: per Body, the mass edited last and whether a call carried it

uiVars == <<session, objects, selectedObjectType, selectedObject, meshes, targets,
            timers, massUpdateTimerRef, now, calls, issued, toasts, lastClick,
            lastEdit, burstCount, runCount, massCalls, lastSettled, edited>>

VARIABLES
  positions,              \* the position attribute of the grid geometry: x, y, z per sample
  colors,                 \* the color attribute of the grid geometry: r, g, b per sample
  frames                  \* history: how many animation frames ran

gridVars == <<positions, colors, frames>>

vars == <<db, nextId, createdBy, lastCall, clearRun,
          spherical, target, cameraPosition, isDragging, dragButton,
          previousMousePosition, wheelCount, lastEvent,
          session, objects, selectedObjectType, selectedObject, meshes, targets,
          timers, massUpdateTimerRef, now, calls, issued, toasts, lastClick,
          lastEdit, burstCount, runCount, massCalls, lastSettled, edited,
          positions, colors, frames>>

(***************************************************************************)
(* The store's handlers.  Each is a Convex mutation or query, which runs   *)
(* as one transaction; it yields the table afterwards, whether it threw    *)
(* (ok = FALSE) and what it returned.                                      *)
(***************************************************************************)
Lookup(d, id) ==
  IF \E o \in d : o.id = id THEN CHOOSE o \in d : o.id = id ELSE NoObject

MutantGetUserObjects(d, user) ==
  IF user = NoUser THEN {} ELSE d

getUserObjects(d, user) ==
  IF user = NoUser THEN {} ELSE {o \in d : o.userId = user}

MutantCreateObject(d, nid, user, args) ==
  IF user = NoUser
    THEN [db |-> d, ok |-> FALSE, ret |-> 0]
    ELSE [db |-> d \cup {[id |-> nid, userId |-> user, type |-> args.type,
                          mass |-> OBJECT_TYPES.planet.mass,
                          position |-> args.position, name |-> args.name]},
          ok |-> TRUE, ret |-> nid]

createObject(d, nid, user, args) ==
  IF user = NoUser
    THEN [db |-> d, ok |-> FALSE, ret |-> 0]
    ELSE [db |-> d \cup {[id |-> nid, userId |-> user, type |-> args.type,
                          mass |-> args.mass, position |-> args.position,
                          name |-> args.name]},
          ok |-> TRUE, ret |-> nid]

updateObjectMass(d, user, objectId, mass) ==
  LET object == Lookup(d, objectId) IN
  IF user = NoUser
    THEN [db |-> d, ok |-> FALSE, ret |-> 0]
  ELSE IF object = NoObject \/ object.userId # user
    THEN [db |-> d, ok |-> FALSE, ret |-> 0]
  ELSE [db |-> (d \ {object}) \cup {[object EXCEPT !.mass = mass]},
        ok |-> TRUE, ret |-> 0]

updateObjectPosition(d, user, objectId, position) ==
  LET object == Lookup(d, objectId) IN
  IF user = NoUser
    THEN [db |-> d, ok |-> FALSE, ret |-> 0]
  ELSE IF object = NoObject \/ object.userId # user
    THEN [db |-> d, ok |-> FALSE, ret |-> 0]
  ELSE [db |-> (d \ {object}) \cup {[object EXCEPT !.position = position]},
        ok |-> TRUE, ret |-> 0]

MutantDeleteObject(d, user, objectId) ==
  LET object == Lookup(d, objectId) IN
  IF user = NoUser
    THEN [db |-> d, ok |-> FALSE, ret |-> 0]
  ELSE IF object = NoObject
    THEN [db |-> d, ok |-> FALSE, ret |-> 0]
  ELSE IF object.userId # user
    THEN [db |-> d, ok |-> FALSE, ret |-> 0]
  ELSE [db |-> d \ {object}, ok |-> TRUE, ret |-> 0]

deleteObject(d, user, objectId) ==
  LET object == Lookup(d, objectId) IN
  IF user = NoUser
    THEN [db |-> d, ok |-> FALSE, ret |-> 0]
  ELSE IF object = NoObject
    THEN [db |-> d, ok |-> TRUE, ret |-> 0]
  ELSE IF object.userId # user
    THEN [db |-> d, ok |-> FALSE, ret |-> 0]
  ELSE [db |-> d \ {object}, ok |-> TRUE, ret |-> 0]

MutantClearAllObjects(d, user) ==
  IF user = NoUser
    THEN [db |-> d, ok |-> FALSE, ret |-> 0]
  ELSE IF getUserObjects(d, user) = {}
    THEN [db |-> d, ok |-> FALSE, ret |-> 0]
  ELSE [db |-> d \ getUserObjects(d, user), ok |-> TRUE, ret |-> 0]

clearAllObjects(d, user) ==
  IF user = NoUser
    THEN [db |-> d, ok |-> FALSE, ret |-> 0]
    ELSE [db |-> d \ {o \in d : o.userId = user}, ok |-> TRUE, ret |-> 0]

(***************************************************************************)
(* The store driven directly: any identity calls any operation.            *)
(***************************************************************************)
Positions == {<<0, 0, 0>>}
MassInputs == {NaN}
CreateArgs ==
  { [type |-> "planet", mass |-> OBJECT_TYPES.planet.mass,
     position |-> <<5, 0, 0>>, name |-> NoName],
    [type |-> "comet", mass |-> <<0, 1>>,
     position |-> <<0, 0, 0>>, name |-> <<"comet", 1>>] }

Call(op, caller, objectId, r, before) ==
  [op |-> op, caller |-> caller, objectId |-> objectId, ok |-> r.ok,
   ret |-> r.ret, present |-> Lookup(before, objectId) # NoObject,
   owner |-> IF Lookup(before, objectId) # NoObject
               THEN Lookup(before, objectId).userId ELSE NoUser]

InitStore ==
  /\ db = {}
  /\ nextId = 1
  /\ createdBy = [i \in {} |-> NoUser]
  /\ lastCall = [op |-> "none", caller |-> NoUser, objectId |-> 0, ok |-> TRUE,
                 ret |-> 0, present |-> FALSE, owner |-> NoUser]
  /\ clearRun = 0

RunCreate(caller, args) ==
  LET r == createObject(db, nextId, caller, args) IN
  /\ db' = r.db
  /\ nextId' = IF r.ok THEN nextId + 1 ELSE nextId
  /\ createdBy' = IF r.ok THEN [i \in DOMAIN createdBy \cup {nextId} |->
                                 IF i = nextId THEN caller ELSE createdBy[i]]
                          ELSE createdBy
  /\ lastCall' = Call("create", caller, 0, r, db)
  /\ clearRun' = 0

RunUpdateMass(caller, objectId, mass) ==
  LET r == updateObjectMass(db, caller, objectId, mass) IN
  /\ db' = r.db
  /\ lastCall' = Call("updateMass", caller, objectId, r, db)
  /\ clearRun' = 0
  /\ UNCHANGED <<nextId, createdBy>>

RunUpdatePosition(caller, objectId, position) ==
  LET r == updateObjectPosition(db, caller, objectId, position) IN
  /\ db' = r.db
  /\ lastCall' = Call("updatePosition", caller, objectId, r, db)
  /\ clearRun' = 0
  /\ UNCHANGED <<nextId, createdBy>>

RunDelete(caller, objectId) ==
  LET r == deleteObject(db, caller, objectId) IN
  /\ db' = r.db
  /\ lastCall' = Call("delete", caller, objectId, r, db)
  /\ clearRun' = 0
  /\ UNCHANGED <<nextId, createdBy>>

RunClearAll(caller) ==
  LET r == clearAllObjects(db, caller) IN
  /\ db' = r.db
  /\ lastCall' = Call("clearAll", caller, 0, r, db)
  /\ clearRun' = IF lastCall.op = "clearAll" /\ lastCall.caller = caller
                   THEN (IF clearRun < 2 THEN clearRun + 1 ELSE 2)
                   ELSE 1
  /\ UNCHANGED <<nextId, createdBy>>

StoreCreate ==
  \E caller \in Callers, args \in CreateArgs :
    /\ nextId <= MaxObjects
    /\ RunCreate(caller, args)
    /\ UNCHANGED <<camVars, uiVars, gridVars>>

StoreList ==
  \E caller \in Callers :
    /\ lastCall' = [op |-> "list", caller |-> caller, objectId |-> 0, ok |-> TRUE,
                    ret |-> 0, present |-> FALSE, owner |-> NoUser]
    /\ clearRun' = 0
    /\ UNCHANGED <<db, nextId, createdBy>>
    /\ UNCHANGED <<camVars, uiVars, gridVars>>

StoreUpdateMass ==
  \E caller \in Callers, objectId \in Ids, mass \in MassInputs :
    RunUpdateMass(caller, objectId, mass) /\ UNCHANGED <<camVars, uiVars, gridVars>>

StoreUpdatePosition ==
  \E caller \in Callers, objectId \in Ids, position \in Positions :
    RunUpdatePosition(caller, objectId, position) /\ UNCHANGED <<camVars, uiVars, gridVars>>

StoreDelete ==
  \E caller \in Callers, objectId \in Ids :
    RunDelete(caller, objectId) /\ UNCHANGED <<camVars, uiVars, gridVars>>

StoreClearAll ==
  \E caller \in Callers :
    RunClearAll(caller) /\ UNCHANGED <<camVars, uiVars, gridVars>>

NextStore ==
  \/ StoreCreate
  \/ StoreList
  \/ StoreUpdateMass
  \/ StoreUpdatePosition
  \/ StoreDelete
  \/ StoreClearAll


(***************************************************************************)
(* The Curvature Field Solver (updateGridCurvature).                       *)
(*                                                                         *)
(* Fixed point: coordinates and distances in 1/100 of a unit,              *)
(* displacements and heights in 1/1000, colour channels and luminance in   *)
(* 1/10000, hues in 1/1000 of a degree.  Divisions round down.  The plane  *)
(* has GridDivisions segments per axis where the program has 100.          *)
(*                                                                         *)
(* The program computes in double precision and keeps displacements,       *)
(* targets, heights and colours in Float32Array buffers.  The model's      *)
(* fixed-point numbers stand for the doubles; a value written to a buffer  *)
(* is rounded to SingleBits significant bits, where the program's single   *)
(* precision has 24.                                                       *)
(***************************************************************************)
GridSize == 20
KTenths == 4
KrsPercent == 5
Epsilon == <<1, 1000000>>
HueFrom == 220
HueSpan == 210
SatE4 == 8500
LumE4 == 5500

\* The spacing of the values with SingleBits significant bits around a >= 0.
RECURSIVE Quantum(_, _)
Quantum(a, q) == IF a < (2 ^ SingleBits) * q THEN q ELSE Quantum(a, 2 * q)

\* The store into a Float32Array: the nearest value the buffer can hold,
\* ties to the even one.
Fround(x) ==
  LET a == IF x < 0 THEN -x ELSE x
      q == Quantum(a, 1)
      n == a \div q
      rem == a % q
      up == 2 * rem > q \/ (2 * rem = q /\ n % 2 = 1)
  IN Sign(x) * q * (IF up THEN n + 1 ELSE n)

\* Planar distances between a Body and a sample, in 1/100.
ProbeRadii == {0, 1, 5, 500, 1500, 2828, 5657}

SampleCount == (GridDivisions + 1) * (GridDivisions + 1)
Samples == 0..(SampleCount - 1)

\* PlaneGeometry(2 * gridSize, 2 * gridSize, divisions, divisions) rotated into
\* the XZ plane: vertex i = (column, row), at height 0.
basePositions ==
  [i \in Samples |->
     << -(GridSize * 100) + ((2 * GridSize * 100) * (i % (GridDivisions + 1))) \div GridDivisions,
        0,
        -(GridSize * 100) + ((2 * GridSize * 100) * (i \div (GridDivisions + 1))) \div GridDivisions >>]

Abs(x) == IF x < 0 THEN -x ELSE x

RECURSIVE IsqrtIn(_, _, _)
IsqrtIn(n, lo, hi) ==
  IF lo >= hi THEN lo
  ELSE LET mid == (lo + hi + 1) \div 2 IN
       IF mid * mid <= n THEN IsqrtIn(n, mid, hi) ELSE IsqrtIn(n, lo, mid - 1)

\* Math.hypot, rounded down
Hypot(dx, dz) == IsqrtIn(dx * dx + dz * dz, Max(Abs(dx), Abs(dz)), Abs(dx) + Abs(dz))

\* mass = Math.max(0.000001, obj.mass)
FloorMass(objMass) == RatMax(Epsilon, objMass)

\* r_s = k_rs * mass, in 1/100 like the distances
SchwarzRadius(mass) ==
  IF IsNaN(mass) THEN NaN ELSE <<KrsPercent * mass[1], mass[2]>>

\* effectiveR = Math.max(r, r_s)
EffectiveR(r, r_s) == RatMax(<<r, 1>>, r_s)

MutantBodyDisp(objMass, r) == 100000 \div KrsPercent

\* One Body's term of the potential at planar distance r (in 1/100):
\* mass * (1 / effectiveR), which is 1 / k_rs where effectiveR is r_s.
BodyDisp(objMass, r) ==
  LET mass == FloorMass(objMass)
      r_s == SchwarzRadius(mass)
      effectiveR == EffectiveR(r, r_s)
  IN IF IsNaN(effectiveR) THEN NaN
     ELSE IF effectiveR = <<r, 1>>
       THEN ((100000 * mass[1]) \div mass[2]) \div r
       ELSE 100000 \div KrsPercent

\* r = Math.hypot(x - obj.position.x, z - obj.position.z) at sample i
PlanarDistance(o, i) ==
  Hypot(basePositions[i][1] - 100 * o.position[1],
        basePositions[i][3] - 100 * o.position[3])

\* The first pass at sample i: the sum of the Bodies' terms.
RECURSIVE SumDisp(_, _)
SumDisp(S, i) ==
  IF S = {} THEN 0
  ELSE LET o == CHOOSE y \in S : TRUE IN
       SumDisp(S \ {o}, i) + BodyDisp(o.mass, PlanarDistance(o, i))

\* The displacements of samples 0..n as a sequence.
RECURSIVE Displacements(_, _)
Displacements(S, n) ==
  IF n < 0 THEN <<>> ELSE Append(Displacements(S, n - 1), SumDisp(S, n))

\* disps[i] = disp: the displacements as the Float32Array holds them.
RECURSIVE Stored(_, _)
Stored(computed, n) ==
  IF n = 0 THEN <<>> ELSE Append(Stored(computed, n - 1), Fround(computed[n]))

\* The sum of the first n displacements.
RECURSIVE SumDisps(_, _)
SumDisps(disps, n) == IF n = 0 THEN 0 ELSE SumDisps(disps, n - 1) + disps[n]

\* The largest |disp - meanDisp| among the first n displacements.
RECURSIVE MaxAbsCentered(_, _, _)
MaxAbsCentered(disps, meanDisp, n) ==
  IF n = 0 THEN 0
  ELSE Max(MaxAbsCentered(disps, meanDisp, n - 1), Abs(disps[n] - meanDisp))

\* THREE.Color.setHSL: hue h in 1/1000 degree, s and l in 1/10000
Hue2Rgb(p, q, h) ==
  LET t == h % 360000 IN
  IF t < 60000 THEN p + ((q - p) * t) \div 60000
  ELSE IF t < 180000 THEN q
  ELSE IF t < 240000 THEN p + ((q - p) * (240000 - t)) \div 60000
  ELSE p

SetHSL(h, sat, lum) ==
  IF sat = 0 THEN <<lum, lum, lum>>
  ELSE LET p == IF lum <= 5000 THEN (lum * (10000 + sat)) \div 10000
                               ELSE lum + sat - (lum * sat) \div 10000
           q == 2 * lum - p
       IN << Hue2Rgb(q, p, h + 120000), Hue2Rgb(q, p, h), Hue2Rgb(q, p, h + 240000) >>

\* The effective objects: the selected Body's mass replaces the listed one.
EffectiveObjects(objs, selected) ==
  IF selected # NoObject
    THEN {IF o.id = selected.id THEN [o EXCEPT !.mass = selected.mass] ELSE o : o \in objs}
    ELSE objs

\* The second pass: heights and colours from the displacements, written
\* to the Float32Arrays targetY and targetColors.
WriteTargets(disps, meanDisp, maxAbs) ==
  [ Y |-> [i \in Samples |->
             Fround(basePositions[i][2] - (KTenths * (disps[i + 1] - meanDisp)) \div 10)],
    colors |-> [i \in Samples |->
             LET t == IF maxAbs > 0
                        THEN Min(Max((Abs(disps[i + 1] - meanDisp) * 1000) \div maxAbs, 0),
                                 1000)
                        ELSE 0
                 color == SetHSL(HueFrom * 1000 - HueSpan * t, SatE4, LumE4 - t)
             IN <<Fround(color[1]), Fround(color[2]), Fround(color[3])>>] ]

\* Between the passes: the mean displacement, then the largest centered one.
Centered(disps, meanDisp) ==
  WriteTargets(disps, meanDisp, MaxAbsCentered(disps, meanDisp, SampleCount))

MutantMeanDisp(computed) == SumDisps(computed, SampleCount) \div Max(1, SampleCount - 1)

\* meanDisp = sumDisp / Math.max(1, positions.count), in the model's precision
MeanDisp(computed) == SumDisps(computed, SampleCount) \div Max(1, SampleCount)

\* sumDisp adds up the displacements as computed, not as stored.
MeanZero(computed) ==
  Centered(Stored(computed, SampleCount), MeanDisp(computed))

MutantResetXZ(current, base) == [i \in DOMAIN current |-> base[i]]

\* positions.setX(i, base[i * 3 + 0]); positions.setZ(i, base[i * 3 + 2]):
\* the solver puts x and z back to the base plane and leaves y alone.
ResetXZ(current, base) ==
  [i \in DOMAIN current |-> <<base[i][1], current[i][2], base[i][3]>>]

\* The targets one solver run writes: a height and a colour per sample.
updateGridCurvature(objs, selected) ==
  MeanZero(Displacements(EffectiveObjects(objs, selected), SampleCount - 1))

(***************************************************************************)
(* The Camera Orbit Controller.                                            *)
(*                                                                         *)
(* Angles are in milliradians (pi is taken as 3.140, so that a quarter     *)
(* turn is a whole number of pixels of drag), the radius in units of 1e-4. *)
(* A vector that THREE computes from a spherical triple is kept as that    *)
(* triple in canonical form (what setFromVector3 reads back from it), and  *)
(* the camera position as a base point plus such a vector; the arithmetic  *)
(* is exact, floating-point rounding is not modelled.                      *)
(***************************************************************************)
PiMilli == 3140
MinPhi == 50
MaxPhi == PiMilli - 50
MinRadius == 20000
MaxRadius == 800000
InitialRadius == 150000
OrbitSpeed == 5

VecAdd(a, b) == <<a[1] + b[1], a[2] + b[2], a[3] + b[3]>>
VecSub(a, b) == <<a[1] - b[1], a[2] - b[2], a[3] - b[3]>>
Zero3 == <<0, 0, 0>>

\* atan2 yields an angle in (-pi, pi]
WrapTheta(t) ==
  LET m == (t + PiMilli) % (2 * PiMilli) IN
  IF m = 0 THEN PiMilli ELSE m - PiMilli

\* Vector3.setFromSpherical: the vector of a spherical triple.  Two triples
\* give the same vector when they differ by whole turns of theta, by the
\* reflection of a phi outside [0, pi], or by theta on the polar axis.
SetFromSpherical(s) ==
  LET p0 == s.phi % (2 * PiMilli)
      flip == p0 > PiMilli
      p == IF flip THEN 2 * PiMilli - p0 ELSE p0
      t == IF flip THEN s.theta + PiMilli ELSE s.theta
  IN IF s.radius = 0 THEN [radius |-> 0, phi |-> 0, theta |-> 0]
     ELSE IF p = 0 \/ p = PiMilli THEN [radius |-> s.radius, phi |-> p, theta |-> 0]
     ELSE [radius |-> s.radius, phi |-> p, theta |-> WrapTheta(t)]

\* camera.position.clone().sub(targetRef.current)
CameraOffset(pos, tgt) == [d |-> VecSub(pos.base, tgt), v |-> pos.v]

\* Spherical.setFromVector3 of an offset.  An offset whose base differs from
\* the target is the sum of two vectors, whose angles this arithmetic cannot
\* give: it is marked by radius -1.
SetFromVector3(offset) ==
  IF offset.d = Zero3
    THEN [radius |-> offset.v.radius, phi |-> offset.v.phi, theta |-> offset.v.theta]
    ELSE [radius |-> -1, phi |-> 0, theta |-> 0]

ClampPhi(phi) == Min(Max(phi, MinPhi), MaxPhi)

MutantUpdateCameraFromSpherical(s, tgt) ==
  [spherical |-> s,
   position |-> [base |-> tgt, v |-> SetFromSpherical(s)]]

updateCameraFromSpherical(s, tgt) ==
  LET clamped == [s EXCEPT !.phi = ClampPhi(s.phi)] IN
  [spherical |-> clamped,
   position |-> [base |-> tgt, v |-> SetFromSpherical(clamped)]]

MutantZoom(radius, deltaY) ==
  (radius * (10 + Sign(deltaY))) \div 10

Zoom(radius, deltaY) ==
  Min(Max((radius * (10 + Sign(deltaY))) \div 10, MinRadius), MaxRadius)

\* The inputs of the orbit specification.
MouseXs == {0, 314}
MouseYs == {0, 300}
Buttons == {0, 1, 2}
\* The inputs of the zoom specification: fewer pointer positions, so that the
\* wheel can be turned MaxWheel times.
ZoomMouseXs == {0}
ZoomMouseYs == {0, 700}
ZoomButtons == {0}
NoButton == -1
WheelDeltas == {-100, 0, 100}
PanVectors == {<<1, 0, 0>>}

InitCamera ==
  /\ spherical = [radius |-> InitialRadius, phi |-> PiMilli \div 3, theta |-> 0]
  /\ target = Zero3
  /\ cameraPosition = [base |-> Zero3,
                       v |-> SetFromSpherical([radius |-> InitialRadius,
                                               phi |-> PiMilli \div 3, theta |-> 0])]
  /\ isDragging = FALSE
  /\ dragButton = NoButton
  /\ previousMousePosition = [x |-> 0, y |-> 0]
  /\ wheelCount = 0
  /\ lastEvent = [kind |-> "other", arg |-> 0]

handleMouseDown(buttons, xs, ys) ==
  \E button \in buttons, x \in xs, y \in ys :
    /\ isDragging' = TRUE
    /\ dragButton' = button
    /\ previousMousePosition' = [x |-> x, y |-> y]
    /\ spherical' = SetFromVector3(CameraOffset(cameraPosition, target))
    /\ lastEvent' = [kind |-> "other", arg |-> 0]
    /\ UNCHANGED <<target, cameraPosition, wheelCount>>

MutantPan(pan) ==
  /\ target' = target
  /\ cameraPosition' = [cameraPosition EXCEPT !.base = VecAdd(cameraPosition.base, pan)]
  /\ spherical' = SetFromVector3(CameraOffset(cameraPosition', target'))

\* Shift-drag: the same displacement goes to the target and to the camera.
Pan(pan) ==
  /\ target' = VecAdd(target, pan)
  /\ cameraPosition' = [cameraPosition EXCEPT !.base = VecAdd(cameraPosition.base, pan)]
  /\ spherical' = SetFromVector3(CameraOffset(cameraPosition', target'))

Orbit(deltaX, deltaY) ==
  LET moved == [spherical EXCEPT !.theta = spherical.theta - deltaX * OrbitSpeed,
                                 !.phi = spherical.phi - deltaY * OrbitSpeed]
      r == updateCameraFromSpherical(moved, target)
  IN /\ spherical' = r.spherical
     /\ cameraPosition' = r.position
     /\ UNCHANGED target

handleMouseMove(xs, ys) ==
  \E x \in xs, y \in ys, shiftKey \in BOOLEAN :
    LET deltaX == x - previousMousePosition.x
        deltaY == y - previousMousePosition.y
    IN
    IF ~isDragging
      THEN /\ lastEvent' = [kind |-> "other", arg |-> 0]
           /\ UNCHANGED <<spherical, target, cameraPosition, isDragging, dragButton,
                          previousMousePosition, wheelCount>>
      ELSE
        /\ previousMousePosition' = [x |-> x, y |-> y]
        /\ UNCHANGED <<isDragging, dragButton, wheelCount>>
        /\ IF shiftKey
             THEN /\ \E pan \in (IF deltaX = 0 /\ deltaY = 0 THEN {Zero3} ELSE PanVectors) :
                       /\ \A i \in 1..3 : VecAdd(target, pan)[i] \in (-MaxPan)..MaxPan
                       /\ Pan(pan)
                  /\ lastEvent' = [kind |-> "pan", arg |-> 0]
             ELSE IF dragButton = 0 \/ dragButton = 2
               THEN /\ Orbit(deltaX, deltaY)
                    /\ lastEvent' = [kind |-> "orbit", arg |-> Sign(deltaY)]
               ELSE /\ lastEvent' = [kind |-> "other", arg |-> 0]
                    /\ UNCHANGED <<spherical, target, cameraPosition>>

handleMouseUp ==
  /\ isDragging' = FALSE
  /\ dragButton' = NoButton
  /\ lastEvent' = [kind |-> "other", arg |-> 0]
  /\ UNCHANGED <<spherical, target, cameraPosition, previousMousePosition, wheelCount>>

handleWheel(budget) ==
  \E deltaY \in WheelDeltas :
    LET zoomed == [spherical EXCEPT !.radius = Zoom(spherical.radius, deltaY)]
        r == updateCameraFromSpherical(zoomed, target)
    IN /\ wheelCount < budget
       /\ wheelCount' = wheelCount + (IF Sign(deltaY) = 0 THEN 0 ELSE 1)
       /\ spherical' = r.spherical
       /\ cameraPosition' = r.position
       /\ lastEvent' = [kind |-> "wheel", arg |-> Sign(deltaY)]
       /\ UNCHANGED <<target, isDragging, dragButton, previousMousePosition>>

NextCamera ==
  \/ handleMouseDown(Buttons, MouseXs, MouseYs) /\ UNCHANGED <<storeVars, uiVars, gridVars>>
  \/ handleMouseMove(MouseXs, MouseYs) /\ UNCHANGED <<storeVars, uiVars, gridVars>>
  \/ handleMouseUp /\ UNCHANGED <<storeVars, uiVars, gridVars>>
  \/ handleWheel(MaxWheelOrbit) /\ UNCHANGED <<storeVars, uiVars, gridVars>>

NextZoom ==
  \/ handleMouseDown(ZoomButtons, ZoomMouseXs, ZoomMouseYs) /\ UNCHANGED <<storeVars, uiVars, gridVars>>
  \/ handleMouseMove(ZoomMouseXs, ZoomMouseYs) /\ UNCHANGED <<storeVars, uiVars, gridVars>>
  \/ handleMouseUp /\ UNCHANGED <<storeVars, uiVars, gridVars>>
  \/ handleWheel(MaxWheel) /\ UNCHANGED <<storeVars, uiVars, gridVars>>

(***************************************************************************)
(* The visualizer component: placement, selection, mass editing, scene     *)
(* synchronisation.  A mutation the component issues is appended to calls; *)
(* the store runs the calls of this client in the order they were issued,  *)
(* and the client then resumes the handler that awaited the call.          *)
(***************************************************************************)
DebounceMs == 120
TickMs == DebounceMs \div 2
MinMass == <<1, 10>>
MaxMass == <<50000, 1>>
VisualizerUser == "u1"

NoHit == <<>>

\* THREE.Ray.intersectPlane for the plane y = 0 with normal (0, 1, 0):
\* null when the ray is parallel to the plane and does not start on it, or
\* when the plane is behind the ray.
intersectPlane(ray) ==
  LET denominator == ray.direction[2]
      at(i) == (ray.origin[i] * denominator - ray.direction[i] * ray.origin[2])
                 \div denominator
  IN IF denominator = 0
       THEN (IF ray.origin[2] = 0 THEN ray.origin ELSE NoHit)
     ELSE IF Sign(-ray.origin[2]) * Sign(denominator) < 0
       THEN NoHit
     ELSE <<at(1), at(2), at(3)>>

\* if (intersectPoint): intersectPoint is the Vector3 made before the call,
\* and an object is truthy whatever it holds.
Truthy(vector) == TRUE

\* The rays of the clicks: from the camera through the pointer.
CameraEye == <<0, 8, 13>>
Rays ==
  { [origin |-> CameraEye, direction |-> <<5, -8, -13>>],
    [origin |-> CameraEye, direction |-> <<0, 0, -1>>],
    [origin |-> CameraEye, direction |-> <<0, 1, -1>>] }
EditRays == { [origin |-> CameraEye, direction |-> <<5, -8, -13>>] }

PlaceTypes == {"planet", "blackhole"}
RawInputs == {NaN, <<7, 1>>, <<60000, 1>>}
ForeignArgs ==
  { [type |-> "comet", mass |-> <<0, 1>>,
     position |-> <<0, 0, 0>>, name |-> <<"comet", 1>>] }

MutantPlacementArgs(type, point, count) ==
  [type |-> type, mass |-> OBJECT_TYPES[type].mass,
   position |-> <<point[1], 0, point[3]>>, name |-> <<type, count>>]

\* The arguments handleCanvasClick passes to createObject.
PlacementArgs(type, point, count) ==
  [type |-> type, mass |-> OBJECT_TYPES[type].mass,
   position |-> <<point[1], 0, point[3]>>, name |-> <<type, count + 1>>]

NewCall(op, objectId, args, t) ==
  [op |-> op, objectId |-> objectId, type |-> args.type, mass |-> args.mass,
   position |-> args.position, name |-> args.name, t |-> t,
   result |-> "pending"]

NoArgs == [type |-> "", mass |-> <<0, 1>>, position |-> Zero3, name |-> NoName]

\* the clamp of handleMassInputChange
ClampMass(v) == RatMin(MaxMass, RatMax(MinMass, v))

MutantScheduleMassUpdate(pending, ref, timer) ==
  pending \cup {timer}

\* clearTimeout(massUpdateTimerRef.current) then setTimeout(..., 120)
ScheduleMassUpdate(pending, ref, timer) ==
  {t \in pending : t.id # ref} \cup {timer}

MeshKey(id) == <<id, "">>
DiskKey(id) == <<id, ":disk">>

\* The scene effect: objectsRef is cleared, then a mesh is added for every
\* listed Body whose type the registry knows, and a disk for a blackhole.
SceneSync(previous, list) ==
  LET cleared == previous \ previous
      known == {o \in list : o.type \in TypeNames}
  IN cleared \cup {MeshKey(o.id) : o \in known}
             \cup {DiskKey(o.id) : o \in {b \in known : b.type = "blackhole"}}

InitUI ==
  /\ session = VisualizerUser
  /\ objects = {}
  /\ selectedObjectType = "planet"
  /\ selectedObject = NoObject
  /\ meshes = {}
  /\ targets = updateGridCurvature({}, NoObject)
  /\ timers = {}
  /\ massUpdateTimerRef = 0
  /\ now = 0
  /\ calls = <<>>
  /\ issued = 0
  /\ toasts = [n |-> 0, kind |-> "none"]
  /\ lastClick = [n |-> 0, hit |-> NoHit]
  /\ lastEdit = [t |-> 0, objectId |-> 0, mass |-> <<0, 1>>, first |-> <<0, 1>>]
  /\ burstCount = 0
  /\ runCount = 0
  /\ massCalls = [count |-> 0, t |-> 0, objectId |-> 0, mass |-> <<0, 1>>]
  /\ lastSettled = [op |-> "", result |-> "", objectId |-> 0, reported |-> FALSE]
  /\ edited = {}

PendingCalls == {i \in 1..Len(calls) : calls[i].result = "pending"}
First(S) == CHOOSE i \in S : \A j \in S : i <= j

\* Room for one more call besides those the pending timers will make.
CanIssue(maxCalls) == issued + Cardinality(timers) < maxCalls
CanCreate(maxBodies) ==
  nextId + Cardinality({i \in PendingCalls : calls[i].op = "create"}) <= maxBodies

handleCanvasClick(rays, maxBodies, maxCalls) ==
  \E ray \in rays :
    LET hit == intersectPlane(ray)
        intersectPoint == IF hit = NoHit THEN Zero3 ELSE hit
    IN /\ session # NoUser
       /\ CanIssue(maxCalls)
       /\ CanCreate(maxBodies)
       /\ IF Truthy(intersectPoint)
            THEN /\ calls' = Append(calls,
                               NewCall("create", 0,
                                       PlacementArgs(selectedObjectType, intersectPoint,
                                                     Cardinality(objects)),
                                       now))
                 /\ issued' = issued + 1
            ELSE UNCHANGED <<calls, issued>>
       /\ lastClick' = [n |-> 1 - lastClick.n, hit |-> hit]
       /\ UNCHANGED <<session, objects, selectedObjectType, selectedObject, meshes,
                      targets, timers, massUpdateTimerRef, now, toasts, lastEdit,
                      burstCount, runCount, massCalls, lastSettled,
                      edited>>
       /\ UNCHANGED <<storeVars, camVars, gridVars>>

setSelectedObjectType ==
  \E type \in PlaceTypes :
    /\ session # NoUser
    /\ type # selectedObjectType
    /\ selectedObjectType' = type
    /\ UNCHANGED <<session, objects, selectedObject, meshes, targets, timers,
                   massUpdateTimerRef, now, calls, issued, toasts, lastClick, lastEdit,
                   burstCount, runCount, massCalls, lastSettled,
                   edited>>
    /\ UNCHANGED <<storeVars, camVars, gridVars>>

\* onClick of a card of the object list
selectObject ==
  \E obj \in objects :
    /\ session # NoUser
    /\ obj # selectedObject
    /\ selectedObject' = obj
    /\ UNCHANGED <<session, objects, selectedObjectType, meshes, targets, timers,
                   massUpdateTimerRef, now, calls, issued, toasts, lastClick, lastEdit,
                   burstCount, runCount, massCalls, lastSettled,
                   edited>>
    /\ UNCHANGED <<storeVars, camVars, gridVars>>

\* onClick of the delete button of a card; the call is not awaited
deleteClick(maxCalls) ==
  \E obj \in objects :
    /\ session # NoUser
    /\ CanIssue(maxCalls)
    /\ calls' = Append(calls, NewCall("delete", obj.id, NoArgs, now))
    /\ issued' = issued + 1
    /\ selectedObject' = IF selectedObject.id = obj.id THEN NoObject ELSE selectedObject
    /\ UNCHANGED <<session, objects, selectedObjectType, meshes, targets, timers,
                   massUpdateTimerRef, now, toasts, lastClick, lastEdit, burstCount,
                   runCount, massCalls, lastSettled,
                   edited>>
    /\ UNCHANGED <<storeVars, camVars, gridVars>>

\* the part of handleClearAll before the await; the button is disabled
\* while the list is empty
handleClearAll(maxCalls) ==
  /\ session # NoUser
  /\ objects # {}
  /\ CanIssue(maxCalls)
  /\ calls' = Append(calls, NewCall("clearAll", 0, NoArgs, now))
  /\ issued' = issued + 1
  /\ UNCHANGED <<session, objects, selectedObjectType, selectedObject, meshes,
                 targets, timers, massUpdateTimerRef, now, toasts, lastClick,
                 lastEdit, burstCount, runCount, massCalls, lastSettled,
                 edited>>
  /\ UNCHANGED <<storeVars, camVars, gridVars>>

\* updateGridCurvature is the callback of the render the handler belongs
\* to, so it reads the list and the selection of that render:
\* setSelectedObject(next) takes effect with the next render.
handleMassInputChange(maxEdits, maxCalls) ==
  \E raw \in RawInputs :
    /\ session # NoUser
    /\ selectedObject # NoObject
    /\ massUpdateTimerRef < maxEdits
    /\ CanIssue(maxCalls) \/ timers # {}
    /\ IF IsNaN(raw)
         THEN UNCHANGED <<selectedObject, targets, timers, massUpdateTimerRef,
                          lastEdit, burstCount, runCount, edited>>
         ELSE LET nextVal == ClampMass(raw)
                  newBurst == burstCount = 0 \/ now - lastEdit.t >= DebounceMs
                  newRun == timers = {}
              IN /\ selectedObject' = [selectedObject EXCEPT !.mass = nextVal]
                 /\ targets' = updateGridCurvature(objects, selectedObject)
                 /\ timers' = ScheduleMassUpdate(timers, massUpdateTimerRef,
                                 [id |-> massUpdateTimerRef + 1,
                                  due |-> now + DebounceMs,
                                  objectId |-> selectedObject.id,
                                  mass |-> nextVal])
                 /\ massUpdateTimerRef' = massUpdateTimerRef + 1
                 /\ lastEdit' = [t |-> now, objectId |-> selectedObject.id,
                                 mass |-> nextVal,
                                 first |-> IF newRun THEN nextVal ELSE lastEdit.first]
                 /\ burstCount' = IF newBurst THEN burstCount + 1 ELSE burstCount
                 /\ runCount' = IF newRun THEN runCount + 1 ELSE runCount
                 /\ edited' = {e \in edited : e.objectId # selectedObject.id}
                                \cup {[objectId |-> selectedObject.id, mass |-> nextVal,
                                       sent |-> FALSE]}
    /\ positions' = IF IsNaN(raw) THEN positions ELSE ResetXZ(positions, basePositions)
    /\ UNCHANGED <<session, objects, selectedObjectType, meshes, now, calls, issued,
                   toasts, lastClick, massCalls, lastSettled, colors, frames>>
    /\ UNCHANGED <<storeVars, camVars>>

\* The callback of the debounce timer, up to its await.  setTimeout runs it
\* no sooner than the delay; events that arrive meanwhile are handled first.
massUpdateTimer ==
  \E timer \in timers :
    /\ timer.due <= now
    /\ timers' = timers \ {timer}
    /\ calls' = Append(calls,
                  NewCall("updateMass", timer.objectId,
                          [NoArgs EXCEPT !.mass = timer.mass], now))
    /\ issued' = issued + 1
    /\ massCalls' = [count |-> massCalls.count + 1, t |-> now,
                     objectId |-> timer.objectId, mass |-> timer.mass]
    /\ edited' = {IF e.objectId = timer.objectId /\ e.mass = timer.mass
                    THEN [e EXCEPT !.sent = TRUE] ELSE e : e \in edited}
    /\ UNCHANGED <<session, objects, selectedObjectType, selectedObject, meshes,
                   targets, massUpdateTimerRef, now, toasts, lastClick, lastEdit,
                   burstCount, runCount, lastSettled>>
    /\ UNCHANGED <<storeVars, camVars, gridVars>>

\* Time passes.  Only a timer that is not yet due observes the clock; a
\* timer that is due runs within the tick.
Tick ==
  /\ \E timer \in timers : now < timer.due
  /\ now + TickMs <= MaxTime
  /\ now' = now + TickMs
  /\ UNCHANGED <<session, objects, selectedObjectType, selectedObject, meshes,
                 targets, timers, massUpdateTimerRef, calls, issued, toasts, lastClick,
                 lastEdit, burstCount, runCount, massCalls, lastSettled,
                 edited>>
  /\ UNCHANGED <<storeVars, camVars, gridVars>>

\* The store runs the oldest call still pending, as the session's identity.
ServerRun ==
  /\ PendingCalls # {}
  /\ LET i == First(PendingCalls)
         c == calls[i]
     IN /\ CASE c.op = "create" ->
                  RunCreate(session, [type |-> c.type, mass |-> c.mass,
                                      position |-> c.position, name |-> c.name])
             [] c.op = "updateMass" -> RunUpdateMass(session, c.objectId, c.mass)
             [] c.op = "delete" -> RunDelete(session, c.objectId)
             [] c.op = "clearAll" -> RunClearAll(session)
        /\ calls' = [calls EXCEPT ![i].result = IF lastCall'.ok THEN "ok" ELSE "error"]
  /\ UNCHANGED <<session, objects, selectedObjectType, selectedObject, meshes,
                 targets, timers, massUpdateTimerRef, now, issued, toasts, lastClick,
                 lastEdit, burstCount, runCount, massCalls, lastSettled,
                 edited>>
  /\ UNCHANGED <<camVars, gridVars>>

\* What the handler does after its await: the notification it shows, if any.
ToastOf(c) ==
  CASE c.op = "create" -> IF c.result = "ok" THEN "success" ELSE "error"
    [] c.op = "clearAll" -> IF c.result = "ok" THEN "success" ELSE "error"
    [] c.op = "updateMass" -> IF c.result = "ok" THEN "none" ELSE "error"
    [] OTHER -> "none"

MutantSelectionAfter(c, selected) == selected

\* handleClearAll after its await: setSelectedObject(null) follows the call
\* inside the try block, so it runs only when the call succeeded.
SelectionAfter(c, selected) ==
  IF c.op = "clearAll" /\ c.result = "ok" THEN NoObject ELSE selected

\* The handler that awaited the oldest call resumes once the call is answered.
Settle ==
  /\ calls # <<>>
  /\ LET c == Head(calls)
     IN /\ c.result # "pending"
        /\ calls' = Tail(calls)
        /\ toasts' = IF ToastOf(c) = "none" THEN toasts
                     ELSE [n |-> 1 - toasts.n, kind |-> ToastOf(c)]
        /\ selectedObject' = SelectionAfter(c, selectedObject)
        /\ lastSettled' = [op |-> c.op, result |-> c.result, objectId |-> c.objectId,
                           reported |-> ToastOf(c) # "none"]
  /\ UNCHANGED <<session, objects, selectedObjectType, meshes, targets, timers,
                 massUpdateTimerRef, now, issued, lastClick, lastEdit, burstCount,
                 runCount, massCalls, edited>>
  /\ UNCHANGED <<storeVars, camVars, gridVars>>

\* The subscription delivers a new list.  The render that follows runs the
\* scene effect (meshes, then the solver with that render's selection) and
\* the effect that keeps the selection in step with the list.
QueryUpdate ==
  LET list == getUserObjects(db, session) IN
  /\ list # objects
  /\ objects' = list
  /\ meshes' = SceneSync(meshes, list)
  /\ targets' = updateGridCurvature(list, selectedObject)
  /\ positions' = ResetXZ(positions, basePositions)
  /\ selectedObject' =
       IF selectedObject # NoObject /\ (\E o \in list : o.id = selectedObject.id)
         THEN CHOOSE o \in list : o.id = selectedObject.id
         ELSE selectedObject
  /\ UNCHANGED <<session, selectedObjectType, timers, massUpdateTimerRef, now, calls,
                 issued, toasts, lastClick, lastEdit, burstCount, runCount, massCalls,
                 lastSettled,
                 edited, colors, frames>>
  /\ UNCHANGED <<storeVars, camVars>>

\* The same identity calls createObject from another client; the store
\* takes any string as a type and any number as a mass.
ApiCreate(foreignArgs, maxObjects) ==
  \E args \in foreignArgs :
    /\ session # NoUser
    /\ CanCreate(maxObjects)
    /\ RunCreate(session, args)
    /\ UNCHANGED uiVars
    /\ UNCHANGED <<camVars, gridVars>>

\* The identity behind the component's calls is lost (the session ends, or
\* the user signs out in another tab); useAuth's user becomes null and the
\* component renders the sign-in prompt.  Calls in flight and timers stay.
SessionExpires ==
  /\ session # NoUser
  /\ session' = NoUser
  /\ UNCHANGED <<objects, selectedObjectType, selectedObject, meshes, targets, timers,
                 massUpdateTimerRef, now, calls, issued, toasts, lastClick, lastEdit,
                 burstCount, runCount, massCalls, lastSettled,
                 edited>>
  /\ UNCHANGED <<storeVars, camVars, gridVars>>

(***************************************************************************)
(* The Animator: the requestAnimationFrame loop.  Heights are in 1/1000   *)
(* and colour channels in 1/10000, as the solver writes them.              *)
(***************************************************************************)
AlphaPercent == 12

\* a / b rounded to the nearest whole number
RoundDiv(a, b) == (2 * a + b) \div (2 * b)

MutantLerp(cur, tgt) == tgt

\* pos.setY(i, curY + (tgtY - curY) * alpha): computed in double precision
\* and stored into the Float32Array of the attribute.
Lerp(cur, tgt) == Fround(cur + RoundDiv(AlphaPercent * (tgt - cur), 100))

\* The geometry as created: the base plane, and a zeroed color attribute.
InitGrid ==
  /\ positions = basePositions
  /\ colors = [i \in Samples |-> <<0, 0, 0>>]
  /\ frames = 0

\* One frame callback.  Both buffers exist from the first solver run on
\* and have one entry per sample, so both loops run.
animate ==
  /\ frames < MaxFrames
  /\ DOMAIN targets.Y = DOMAIN positions
  /\ positions' = [i \in DOMAIN positions |->
                     <<positions[i][1], Lerp(positions[i][2], targets.Y[i]), positions[i][3]>>]
  /\ colors' = [i \in DOMAIN colors |->
                  <<Lerp(colors[i][1], targets.colors[i][1]),
                    Lerp(colors[i][2], targets.colors[i][2]),
                    Lerp(colors[i][3], targets.colors[i][3])>>]
  /\ frames' = frames + 1
  /\ UNCHANGED <<storeVars, camVars, uiVars>>

\* Bodies another client of the same identity places: a planet on the
\* corner sample, a planet off the samples, and a Body whose r_s ends just
\* short of the corner's nearest sample outside it.
GridArgs ==
  { [type |-> "planet", mass |-> <<1, 1>>,
     position |-> <<-GridSize, 0, -GridSize>>, name |-> <<"planet", 1>>],
    [type |-> "planet", mass |-> <<1, 1>>,
     position |-> <<5, 0, 0>>, name |-> <<"planet", 2>>],
    [type |-> "star", mass |-> <<7999, 10>>,
     position |-> <<-GridSize, 0, -GridSize>>, name |-> <<"star", 1>>] }

NextGrid ==
  \/ ApiCreate(GridArgs, MaxGridObjects)
  \/ QueryUpdate
  \/ animate

NextPlace ==
  \/ handleCanvasClick(Rays, MaxObjects, MaxCalls)
  \/ setSelectedObjectType
  \/ deleteClick(MaxCalls)
  \/ handleClearAll(MaxCalls)
  \/ ServerRun
  \/ Settle
  \/ QueryUpdate
  \/ ApiCreate(ForeignArgs, MaxObjects)

NextEdit ==
  \/ handleCanvasClick(EditRays, MaxEditObjects, MaxEditCalls)
  \/ selectObject
  \/ handleMassInputChange(MaxEdits, MaxEditCalls)
  \/ massUpdateTimer
  \/ Tick
  \/ ServerRun
  \/ Settle
  \/ QueryUpdate

\* Two Bodies, and the one mass input that edits whichever is selected.
NextShared ==
  \/ handleCanvasClick(EditRays, MaxSharedObjects, MaxSharedCalls)
  \/ selectObject
  \/ handleMassInputChange(MaxSharedEdits, MaxSharedCalls)
  \/ massUpdateTimer
  \/ Tick
  \/ ServerRun
  \/ Settle
  \/ QueryUpdate

NextSession ==
  \/ handleCanvasClick(EditRays, MaxSessionObjects, MaxSessionCalls)
  \/ selectObject
  \/ deleteClick(MaxSessionCalls)
  \/ handleClearAll(MaxSessionCalls)
  \/ handleMassInputChange(MaxSessionEdits, MaxSessionCalls)
  \/ massUpdateTimer
  \/ Tick
  \/ SessionExpires
  \/ ServerRun
  \/ Settle
  \/ QueryUpdate

Init == InitStore /\ InitCamera /\ InitUI /\ InitGrid

SpecStore == Init /\ [][NextStore]_vars

SpecCamera == Init /\ [][NextCamera]_vars

SpecZoom == Init /\ [][NextZoom]_vars

SpecPlace == Init /\ [][NextPlace]_vars

SpecEdit == Init /\ [][NextEdit]_vars

SpecSession == Init /\ [][NextSession]_vars

SpecGrid == Init /\ [][NextGrid]_vars

SpecShared == Init /\ [][NextShared]_vars

\* The event loop: time passes while a timeout is set, and a timeout that
\* is due runs its callback.
FairShared == SpecShared /\ WF_vars(Tick) /\ WF_vars(massUpdateTimer)

(***************************************************************************)
(* C1.  Per-owner isolation: list called by U yields exactly the Bodies    *)
(* that U created and that are still stored; no call by U changes or       *)
(* removes a Body of another owner; updateMass, updatePosition and delete  *)
(* on such a Body fail.                                                    *)
(***************************************************************************)
C1_PerOwnerIsolation ==
  /\ [](\A u \in Users :
          getUserObjects(db, u) = {o \in db : createdBy[o.id] = u})
  /\ [][\A o \in db : o.userId # lastCall'.caller => o \in db']_vars
  /\ [][( /\ lastCall'.op \in {"updateMass", "updatePosition", "delete"}
          /\ Lookup(db, lastCall'.objectId) # NoObject
          /\ Lookup(db, lastCall'.objectId).userId # lastCall'.caller )
        => ~lastCall'.ok]_vars

C1_Witness ==
  /\ lastCall.op \in {"updateMass", "updatePosition", "delete"}
  /\ lastCall.caller \in Users
  /\ lastCall.present
  /\ lastCall.owner # lastCall.caller
  /\ ~lastCall.ok
  /\ getUserObjects(db, lastCall.caller) # {}
  /\ getUserObjects(db, lastCall.owner) # {}

(***************************************************************************)
(* C6.  Idempotent delete, as claimed: a delete of an id that is not       *)
(* stored reports success, and delete fails only when the Body is stored   *)
(* and owned by another identity.                                          *)
(***************************************************************************)
C6_Original ==
  lastCall.op = "delete" =>
    /\ ~lastCall.present => lastCall.ok
    /\ ~lastCall.ok => (lastCall.present /\ lastCall.owner # lastCall.caller)

(***************************************************************************)
(* C6, amended.  A delete by an authenticated caller of an id that is not  *)
(* stored reports success and leaves the store unchanged; delete fails     *)
(* exactly when the caller is unauthenticated, or the Body is stored and   *)
(* owned by another identity.                                              *)
(***************************************************************************)
C6_IdempotentDelete ==
  /\ [](lastCall.op = "delete" =>
          /\ (lastCall.caller \in Users /\ ~lastCall.present) => lastCall.ok
          /\ ~lastCall.ok <=> \/ lastCall.caller = NoUser
                              \/ (lastCall.present /\ lastCall.owner # lastCall.caller))
  /\ [][(lastCall'.op = "delete" /\ Lookup(db, lastCall'.objectId) = NoObject)
        => db' = db]_vars

C6_Witness ==
  /\ lastCall.op = "delete"
  /\ lastCall.caller \in Users
  /\ ~lastCall.present
  /\ lastCall.ok
  /\ db # {}

(***************************************************************************)
(* C7.  Idempotent clear: clearAll by an authenticated identity succeeds,  *)
(* leaves that identity without Bodies, and a second call right after it   *)
(* succeeds too and changes nothing; clearAll fails only for an            *)
(* unauthenticated caller.                                                 *)
(***************************************************************************)
C7_IdempotentClear ==
  /\ [](lastCall.op = "clearAll" =>
          /\ lastCall.ok <=> lastCall.caller \in Users
          /\ lastCall.ok => getUserObjects(db, lastCall.caller) = {})
  /\ [][(lastCall'.op = "clearAll" /\ clearRun' = 2 /\ lastCall'.caller \in Users)
        => (lastCall'.ok /\ lastCall.ok /\ db' = db)]_vars

C7_Witness ==
  /\ lastCall.op = "clearAll"
  /\ clearRun = 2
  /\ lastCall.caller \in Users
  /\ lastCall.ok
  /\ db # {}
  /\ \E i \in DOMAIN createdBy : createdBy[i] = lastCall.caller

C2_Original ==
  massCalls.count + Cardinality(timers) = burstCount

(***************************************************************************)
(* C2.  Debounced mass write.  A run is a maximal sequence of accepted     *)
(* mass edits each handled while the timer of the one before is still set; *)
(* an edit less than 120 ms after the one before always is.  Every run has *)
(* exactly one updateMass call, issued or still waiting on its timer; the  *)
(* call is issued no sooner than 120 ms after the last edit of the run,    *)
(* for the Body that edit was made to, and carries the value of that edit. *)
(***************************************************************************)
C2_DebouncedWrite ==
  /\ [](massCalls.count + Cardinality(timers) = runCount)
  /\ []((runCount > 0 /\ now - lastEdit.t < DebounceMs) => timers # {})
  /\ [](\A timer \in timers :
          /\ timer.objectId = lastEdit.objectId
          /\ timer.mass = lastEdit.mass
          /\ timer.due = lastEdit.t + DebounceMs)
  /\ []((timers = {} /\ runCount > 0) =>
          /\ massCalls.objectId = lastEdit.objectId
          /\ massCalls.mass = lastEdit.mass
          /\ massCalls.t >= lastEdit.t + DebounceMs)
  /\ [][massCalls' # massCalls =>
          /\ massCalls'.count = massCalls.count + 1
          /\ calls' = Append(calls,
                        [op |-> "updateMass", objectId |-> lastEdit.objectId,
                         type |-> "", mass |-> lastEdit.mass, position |-> Zero3,
                         name |-> NoName, t |-> now, result |-> "pending"])]_vars

\* A run of two edits with different values, less than 120 ms apart, has
\* ended; its one call carried the second value, and the store holds it.
C2_Witness ==
  /\ massUpdateTimerRef = 2
  /\ burstCount = 1
  /\ runCount = 1
  /\ lastEdit.first # lastEdit.mass
  /\ timers = {}
  /\ massCalls.count = 1
  /\ massCalls.mass = lastEdit.mass
  /\ Lookup(db, lastEdit.objectId) # NoObject
  /\ Lookup(db, lastEdit.objectId).mass = lastEdit.mass

(***************************************************************************)
(* C3.  Optimistic curvature update.  The targets written by an accepted   *)
(* mass edit are the solver's output for the listed Bodies with the        *)
(* selected Body's mass replaced by the edited value.                      *)
(***************************************************************************)
C3_Original ==
  [][massUpdateTimerRef' = massUpdateTimerRef + 1 =>
       targets' = updateGridCurvature(objects', selectedObject')]_vars

(***************************************************************************)
(* C4.  Placement without intersection is a no-op.  A canvas click whose   *)
(* ray does not meet the plane y = 0 issues no create call, shows no       *)
(* notification and leaves the stored Bodies as they are.                  *)
(***************************************************************************)
C4_Original ==
  [][(lastClick'.n # lastClick.n /\ lastClick'.hit = NoHit) =>
       (calls' = calls /\ issued' = issued /\ toasts' = toasts /\ db' = db)]_vars

(***************************************************************************)
(* C5.  Placement command.  A canvas click whose ray meets the plane       *)
(* issues one create call with the selected type, that type's registry     *)
(* mass, the position (x, 0, z) of the intersection and the name made of   *)
(* the type and the length of the list plus one; when the store answers    *)
(* the call with success it holds exactly one more Body, owned by the      *)
(* caller, with those fields.                                              *)
(***************************************************************************)
C5_PlacementCommand ==
  /\ [][(lastClick'.n # lastClick.n /\ lastClick'.hit # NoHit) =>
          calls' = Append(calls,
                     [op |-> "create", objectId |-> 0,
                      type |-> selectedObjectType,
                      mass |-> OBJECT_TYPES[selectedObjectType].mass,
                      position |-> <<lastClick'.hit[1], 0, lastClick'.hit[3]>>,
                      name |-> <<selectedObjectType, Cardinality(objects) + 1>>,
                      t |-> now, result |-> "pending"])]_vars
  /\ [][\A i \in 1..Len(calls) :
          ( /\ Len(calls') = Len(calls)
            /\ calls[i].op = "create"
            /\ calls[i].result = "pending"
            /\ calls'[i].result = "ok" )
          => \E doc \in db' :
               /\ doc \notin db
               /\ db' = db \cup {doc}
               /\ Cardinality(db') = Cardinality(db) + 1
               /\ doc.userId = session
               /\ doc.type = calls[i].type
               /\ doc.mass = calls[i].mass
               /\ doc.position = calls[i].position
               /\ doc.name = calls[i].name]_vars

\* The second Body placed, a black hole, is stored as the click asked.
C5_Witness ==
  \E o \in db :
    /\ o.userId = VisualizerUser
    /\ o.type = "blackhole"
    /\ o.mass = OBJECT_TYPES.blackhole.mass
    /\ o.position = <<5, 0, 0>>
    /\ o.name = <<"blackhole", 2>>

(***************************************************************************)
(* C10.  Scene sync exactness.  After every synchronisation the scene      *)
(* holds one mesh keyed by the id of every Body in the list, one disk      *)
(* keyed "{id}:disk" for every such Body of type blackhole, and no other   *)
(* mesh.                                                                   *)
(***************************************************************************)
C10_Original ==
  meshes = {MeshKey(o.id) : o \in objects}
             \cup {DiskKey(o.id) : o \in {b \in objects : b.type = "blackhole"}}

(***************************************************************************)
(* C11.  Selection clearing, as claimed.  A delete click on the selected   *)
(* Body empties the selection, and once the handler of a clear-all has     *)
(* seen the call answered the selection is empty, whatever the answer.     *)
(***************************************************************************)
C11_Original ==
  /\ [][( /\ Len(calls') = Len(calls) + 1
          /\ calls'[Len(calls')].op = "delete"
          /\ calls'[Len(calls')].objectId = selectedObject.id )
        => selectedObject' = NoObject]_vars
  /\ [][(calls # <<>> /\ calls' = Tail(calls) /\ Head(calls).op = "clearAll")
        => selectedObject' = NoObject]_vars

(***************************************************************************)
(* C11, amended.  At most one Body is selected at any time.  A delete      *)
(* click on the selected Body empties the selection at the click, whatever *)
(* becomes of the call.  A clear-all leaves the selection as it is at the  *)
(* click; when the call is answered with success the selection is emptied, *)
(* and when it is answered with a failure the selection is left as it is.  *)
(***************************************************************************)
C11_SelectionClearing ==
  /\ [](/\ selectedObject = NoObject \/ selectedObject.id \in Ids
        /\ Cardinality({o \in objects : o.id = selectedObject.id}) <= 1)
  /\ [][( /\ Len(calls') = Len(calls) + 1
          /\ calls'[Len(calls')].op = "delete"
          /\ calls'[Len(calls')].objectId = selectedObject.id )
        => selectedObject' = NoObject]_vars
  /\ [][(Len(calls') = Len(calls) + 1 /\ calls'[Len(calls')].op = "clearAll")
        => selectedObject' = selectedObject]_vars
  /\ [][(calls # <<>> /\ calls' = Tail(calls) /\ Head(calls).op = "clearAll")
        => selectedObject' = IF Head(calls).result = "ok" THEN NoObject
                                                         ELSE selectedObject]_vars

\* A clear-all issued while a Body was selected was answered with a failure,
\* and the Body is still selected.
C11_Witness ==
  /\ lastSettled.op = "clearAll"
  /\ lastSettled.result = "error"
  /\ selectedObject # NoObject
  /\ \E o \in db : o.id = selectedObject.id

(***************************************************************************)
(* C12.  Revert on failed mass write.  When the handler of a debounced     *)
(* updateMass call sees the call fail, a notification is shown, the store  *)
(* is unchanged, the selected Body's local mass is the stored mass again,  *)
(* and the targets are the solver's output for the stored masses.          *)
(***************************************************************************)
C12_Original ==
  [][( /\ calls # <<>>
       /\ calls' = Tail(calls)
       /\ Head(calls).op = "updateMass"
       /\ Head(calls).result = "error" )
     => /\ toasts' = [n |-> 1 - toasts.n, kind |-> "error"]
        /\ db' = db
        /\ (selectedObject' # NoObject /\ Lookup(db, selectedObject'.id) # NoObject)
             => selectedObject'.mass = Lookup(db, selectedObject'.id).mass
        /\ targets' = updateGridCurvature(objects', NoObject)]_vars

(***************************************************************************)
(* C13.  Failure reporting.  When a create, updateMass, delete or clearAll *)
(* call of the component is answered with a failure, exactly one error     *)
(* notification is shown for it and no call is issued in its place.        *)
(***************************************************************************)
C13_Original ==
  [][( /\ calls # <<>>
       /\ calls' = Tail(calls)
       /\ Head(calls).result = "error" )
     => /\ toasts' = [n |-> 1 - toasts.n, kind |-> "error"]
        /\ issued' = issued
        /\ timers' = timers]_vars

(***************************************************************************)
(* C14.  Body mass validity.  In every reachable state of the store,       *)
(* every stored Body has a mass greater than 0.                            *)
(***************************************************************************)
C14_Original ==
  \A o \in db : RatLess(<<0, 1>>, o.mass)

(***************************************************************************)
(* C15.  Zero-mean invariant, as claimed.  For the solver run on a         *)
(* non-empty list, the values centered = disp - meanDisp, with disp the    *)
(* displacement stored for a sample and meanDisp the mean the solver       *)
(* computed, add up to exactly 0 over the samples (their mean is 0).       *)
(***************************************************************************)
C15_Original ==
  objects # {} =>
    LET computed == Displacements(EffectiveObjects(objects, selectedObject),
                                  SampleCount - 1)
        disps == Stored(computed, SampleCount)
        meanDisp == MeanDisp(computed)
        centered == [i \in 1..SampleCount |-> disps[i] - meanDisp]
    IN SumDisps(centered, SampleCount) = 0

(***************************************************************************)
(* C15, amended.  The mean of centered is 0 up to rounding: the centered   *)
(* values add up to no more than the rounding errors of the stored         *)
(* displacements, each at most 2^-SingleBits of the displacement, plus     *)
(* the rounding of the quotient meanDisp, less than one unit per sample.   *)
(***************************************************************************)
C15_ZeroMean ==
  objects # {} =>
    LET computed == Displacements(EffectiveObjects(objects, selectedObject),
                                  SampleCount - 1)
        disps == Stored(computed, SampleCount)
        meanDisp == MeanDisp(computed)
        centered == [i \in 1..SampleCount |-> disps[i] - meanDisp]
        magnitudes == [i \in 1..SampleCount |-> Abs(computed[i])]
    IN (2 ^ SingleBits) * (Abs(SumDisps(centered, SampleCount)) - (SampleCount - 1))
         <= SumDisps(magnitudes, SampleCount)

\* A list with a planet off the centre: the centered values do not add up to 0.
C15_Witness ==
  /\ \E o \in objects : o.type = "planet" /\ o.position = <<5, 0, 0>>
  /\ LET computed == Displacements(EffectiveObjects(objects, selectedObject),
                                   SampleCount - 1)
         disps == Stored(computed, SampleCount)
         meanDisp == MeanDisp(computed)
         centered == [i \in 1..SampleCount |-> disps[i] - meanDisp]
     IN SumDisps(centered, SampleCount) # 0

(***************************************************************************)
(* C16.  Floor safety.  For every stored Body, whatever its mass, and      *)
(* every planar distance r >= 0, the solver's mass = max(mass, 1e-6),      *)
(* r_s = 0.05 * mass and effectiveR = max(r, r_s) satisfy                  *)
(* effectiveR >= r_s > 0, so that 1 / effectiveR divides by no zero.       *)
(***************************************************************************)
C16_Original ==
  \A o \in db : \A r \in ProbeRadii :
    LET mass == FloorMass(o.mass)
        r_s == SchwarzRadius(mass)
        effectiveR == EffectiveR(r, r_s)
    IN /\ RatLeq(r_s, effectiveR)
       /\ RatLess(<<0, 1>>, r_s)
       /\ effectiveR # <<0, 1>>

(***************************************************************************)
(* C17.  Monotonic falloff: for a single Body of mass M > 0 the            *)
(* displacement at planar distance r is strictly decreasing in r for       *)
(* r >= r_s and constant for r <= r_s, so the target height of the sample  *)
(* at the Body's position is strictly lower than the target height of any  *)
(* sample farther than r_s from it.                                        *)
(***************************************************************************)
C17_Original ==
  Cardinality(objects) = 1 =>
    \A o \in objects : RatLess(<<0, 1>>, o.mass) =>
      \A i, j \in Samples :
        (/\ PlanarDistance(o, i) = 0
         /\ RatLess(SchwarzRadius(FloorMass(o.mass)), <<PlanarDistance(o, j), 1>>))
          => targets.Y[i] < targets.Y[j]

(***************************************************************************)
(* C17, as the solver computes it.  Over radii that lie further apart      *)
(* than the rounding of the division the displacement of a Body of mass    *)
(* M > 0 is strictly decreasing from r_s on and is 1 / k_rs up to r_s; the *)
(* target height of the sample at a single Body's position is never above  *)
(* the target height of a sample farther than r_s from it, and for a       *)
(* planet of mass 1 it is strictly below that of every sample 15 units or  *)
(* more away.  The buffers hold single precision, so a displacement just   *)
(* below 1 / k_rs is stored as 1 / k_rs.                                   *)
(***************************************************************************)
C17_Falloff ==
  /\ \A o \in db : RatLess(<<0, 1>>, o.mass) =>
       LET r_s == SchwarzRadius(FloorMass(o.mass)) IN
       \A r1, r2 \in ProbeRadii :
         /\ (r1 < r2 /\ RatLeq(r_s, <<r1, 1>>))
              => BodyDisp(o.mass, r1) > BodyDisp(o.mass, r2)
         /\ RatLeq(<<r1, 1>>, r_s) => BodyDisp(o.mass, r1) = 100000 \div KrsPercent
         /\ (o.mass = <<1, 1>> /\ r1 >= 1500)
              => Fround(BodyDisp(o.mass, 0)) > Fround(BodyDisp(o.mass, r1))
  /\ Cardinality(objects) = 1 =>
       \A o \in objects : RatLess(<<0, 1>>, o.mass) =>
         \A i, j \in Samples :
           (/\ PlanarDistance(o, i) = 0
            /\ RatLess(SchwarzRadius(FloorMass(o.mass)), <<PlanarDistance(o, j), 1>>))
             => /\ targets.Y[i] <= targets.Y[j]
                /\ (o.mass = <<1, 1>> /\ PlanarDistance(o, j) >= 1500)
                     => targets.Y[i] < targets.Y[j]

C17_Witness ==
  /\ Cardinality(objects) = 1
  /\ \E o \in objects : \E i, j \in Samples :
       /\ o.mass = <<1, 1>>
       /\ PlanarDistance(o, i) = 0
       /\ PlanarDistance(o, j) >= 1500
       /\ targets.Y[i] < targets.Y[j]
(***************************************************************************)
(* C18.  Animator step: in every frame each sample's current height and    *)
(* each color channel moves by the fraction alpha = 0.12 of its remaining  *)
(* distance to the target, current' = current + (target - current) * 0.12, *)
(* so the distance shrinks by the factor 0.88 per frame.                   *)
(***************************************************************************)
C18_Original ==
  [][frames' = frames + 1 =>
       \A i \in Samples :
         /\ positions'[i][2] = positions[i][2]
               + RoundDiv(AlphaPercent * (targets.Y[i] - positions[i][2]), 100)
         /\ \A ch \in 1..3 :
              colors'[i][ch] = colors[i][ch]
                + RoundDiv(AlphaPercent * (targets.colors[i][ch] - colors[i][ch]), 100)]_vars

(***************************************************************************)
(* C18, as the animator computes it.  In every frame each height and each  *)
(* color channel becomes the single-precision rounding of                  *)
(* current + (target - current) * 0.12: the new value differs from that    *)
(* sum by at most half a unit in its last place, the distance to the       *)
(* target never increases, the target is never overshot, and a distance    *)
(* that is not 0 is never closed in one step.  Heights and colors change   *)
(* in frame callbacks only.                                                *)
(***************************************************************************)
C18_AnimatorStep ==
  [][/\ frames' = frames + 1 =>
          \A i \in Samples : \A ch \in 0..3 :
            LET cur == IF ch = 0 THEN positions[i][2] ELSE colors[i][ch]
                new == IF ch = 0 THEN positions'[i][2] ELSE colors'[i][ch]
                tgt == IF ch = 0 THEN targets.Y[i] ELSE targets.colors[i][ch]
                exact == cur + RoundDiv(AlphaPercent * (tgt - cur), 100)
            IN /\ targets' = targets
               /\ new = Lerp(cur, tgt)
               /\ (2 ^ SingleBits) * Abs(new - exact) <= Abs(exact)
               /\ Abs(tgt - new) <= Abs(tgt - cur)
               /\ (tgt - cur) * (tgt - new) >= 0
               /\ cur # tgt => new # tgt
     /\ (positions' # positions \/ colors' # colors) => frames' = frames + 1]_vars

C18_Witness ==
  /\ frames > 1
  /\ objects # {}
  /\ \E i \in Samples :
       /\ targets.Y[i] # 0
       /\ positions[i][2] # 0
       /\ positions[i][2] # targets.Y[i]
       /\ colors[i][1] # 0
       /\ colors[i][1] # targets.colors[i][1]

(***************************************************************************)
(* C19.  Solver frame condition: a solver run writes only the target       *)
(* height and target color buffers; it leaves every sample's current       *)
(* rendered height and current rendered color unchanged, and the number of *)
(* samples and their (x, z) coordinates are the same after any sequence of *)
(* solver runs and animator steps as at initialization.                    *)
(***************************************************************************)
C19_SolverFrame ==
  [][/\ objects' # objects => /\ positions' = positions
                               /\ colors' = colors
                               /\ frames' = frames
     /\ frames' = frames => positions' = positions /\ colors' = colors
     /\ DOMAIN positions' = Samples
     /\ DOMAIN colors' = Samples
     /\ \A i \in Samples : /\ positions'[i][1] = basePositions[i][1]
                            /\ positions'[i][3] = basePositions[i][3]]_vars

\* A solver run wrote the targets of two Bodies after the one frame so far
\* had moved a height towards the targets of one of them.
C19_Witness ==
  /\ frames = 1
  /\ Cardinality(objects) = 2
  /\ \E o \in objects : \E i \in Samples :
       LET before == updateGridCurvature({o}, NoObject) IN
       /\ positions[i][2] = Lerp(0, before.Y[i])
       /\ positions[i][2] # Lerp(0, targets.Y[i])
       /\ positions[i][2] # 0

C21_Original == <>[](\A e \in edited : e.sent)
==========================================================================
